---- MODULE Spec2Model ----
(***************************************************************************)
(* The import command of fabric-cli: validate_import_args (the flow        *)
(* validator of parsers/fab_parser_validators.py) and exec_command (the    *)
(* flow dispatcher of commands/fs/fab_fs_import.py).                       *)
(*                                                                         *)
(* A field value of the argparse Namespace is a record [t, n]: t is the    *)
(* Python type of the value ("none", "str", "list", or "canon" for the     *)
(* result of utils.process_nargs) and n its length.                        *)
(***************************************************************************)
EXTENDS Naturals, Sequences, FiniteSets

VARIABLES args, last, hist, calls, pc

vars == <<args, last, hist, calls, pc>>

\* ---- bounds ----
MaxLen == 1
MaxCalls == 2

\* ---- values ----
None == [t |-> "none", n |-> 0]

ListValues == {[t |-> "list", n |-> k] : k \in 0..MaxLen}

StrValues == {[t |-> "str", n |-> k] : k \in 0..MaxLen}

\* Variant: presence tested as `is not None`, so "" and [] count as given.
Truthy_NotNone(v) == v.t # "none"

\* Python truthiness of a field value: None, "" and [] are falsy.
Truthy(v) == v.t # "none" /\ v.n > 0

\* Python's `a or b`: the first operand when it is truthy, else the second.
PyOr(a, b) == IF Truthy(a) THEN a ELSE b

\* The Namespace objects the parser (and the tests' create_args) builds.
Bags ==
  [path : {None} \cup ListValues,
   input : {None} \cup ListValues,
   format : {None} \cup StrValues,
   config_file : {None} \cup StrValues,
   env : {None} \cup StrValues,
   params : {None} \cup StrValues,
   validate_args : {"unset", "validate_import_args"}]

ContextTypes == {"Item", "Workspace", "Folder"}

ExecutorResults == {"ok", "ImportError"}

\* ---- outcomes ----
ERROR_IMPORT_VALIDATION == "ERROR_IMPORT_VALIDATION"

DirectSyntax == "fab import <path> -i <input_path> [--format <format>]"

\* Variant: the Direct syntax string copied into the CICD branch.
CicdSyntax_Copied == "fab import <path> -i <input_path> [--format <format>]"

CicdSyntax == "fab import --config-file <config_path> --env <env_name> [-P <params>]"

Outcome(k, p, f, s, c) == [kind |-> k, param |-> p, flow |-> f, syntax |-> s, status_code |-> c]

NoOutcome == Outcome("none", "", "", "", "")

Returned == Outcome("returned", "", "", "", "")

\* FabricCLIError(ErrorMessages.Common.import_required_param_missing(...), ERROR_IMPORT_VALIDATION)
import_required_param_missing(p, f, s) == Outcome("import_required_param_missing", p, f, s, ERROR_IMPORT_VALIDATION)

import_mixed_flows_error == Outcome("import_mixed_flows_error", "", "", "", ERROR_IMPORT_VALIDATION)

import_no_flow_specified_error == Outcome("import_no_flow_specified_error", "", "", "", ERROR_IMPORT_VALIDATION)

ImportError == Outcome("ImportError", "", "", "", "")

\* ---- validate_import_args ----
\* Variant: the parameter is tested with `is None` instead of `not`.
_check_required_param_IsNone(a, attr_name, param_display_name, flow_name, flow_syntax) ==
  LET param_value == a[attr_name]
  IN IF param_value = None
       THEN import_required_param_missing(param_display_name, flow_name, flow_syntax)
       ELSE Returned

\* Returns Returned when the parameter is given, else the error it raises.
_check_required_param(a, attr_name, param_display_name, flow_name, flow_syntax) ==
  LET param_value == a[attr_name]
  IN IF ~Truthy(param_value)
       THEN import_required_param_missing(param_display_name, flow_name, flow_syntax)
       ELSE Returned

\* Variant: the two checks made in the opposite order.
Then_Swapped(first, second) == IF second # Returned THEN second ELSE first

\* Two checks in sequence: the first one that raises ends the function.
Then(first, second) == IF first # Returned THEN first ELSE second

\* Variant: the flows are detected from their required fields only.
validate_import_args_RequiredOnly(a) ==
  LET is_direct_api_flow == PyOr(a.path, a.input)
      is_cicd_flow == PyOr(a.config_file, a.env)
      any_direct == PyOr(is_direct_api_flow, a.format)
      any_cicd == PyOr(is_cicd_flow, a.params)
      out ==
        IF Truthy(is_direct_api_flow) /\ Truthy(is_cicd_flow)
          THEN import_mixed_flows_error
        ELSE IF Truthy(any_direct)
          THEN Then(_check_required_param(a, "path", "path", "Direct API", DirectSyntax),
                    _check_required_param(a, "input", "-i/--input", "Direct API", DirectSyntax))
        ELSE IF Truthy(any_cicd)
          THEN Then(_check_required_param(a, "config_file", "--config-file", "CICD", CicdSyntax),
                    _check_required_param(a, "env", "--env", "CICD", CicdSyntax))
        ELSE import_no_flow_specified_error
  IN [out |-> out, args |-> a, ret |-> IF out = Returned THEN a ELSE None]

\* Variant: the validator normalizes input itself once the Direct flow passes.
validate_import_args_Normalizing(a) ==
  LET is_direct_api_flow == PyOr(PyOr(a.path, a.input), a.format)
      is_cicd_flow == PyOr(PyOr(a.config_file, a.env), a.params)
      out ==
        IF Truthy(is_direct_api_flow) /\ Truthy(is_cicd_flow)
          THEN import_mixed_flows_error
        ELSE IF Truthy(is_direct_api_flow)
          THEN Then(_check_required_param(a, "path", "path", "Direct API", DirectSyntax),
                    _check_required_param(a, "input", "-i/--input", "Direct API", DirectSyntax))
        ELSE IF Truthy(is_cicd_flow)
          THEN Then(_check_required_param(a, "config_file", "--config-file", "CICD", CicdSyntax),
                    _check_required_param(a, "env", "--env", "CICD", CicdSyntax))
        ELSE import_no_flow_specified_error
      a2 == IF out = Returned /\ Truthy(is_direct_api_flow)
              THEN [a EXCEPT !.input = [t |-> "canon", n |-> a.input.n]]
              ELSE a
  IN [out |-> out, args |-> a2, ret |-> IF out = Returned THEN a2 ELSE None]

\* Result: out is the error raised, or Returned with ret the object returned;
\* args is the Namespace as the call leaves it.
validate_import_args(a) ==
  LET is_direct_api_flow == PyOr(PyOr(a.path, a.input), a.format)
      is_cicd_flow == PyOr(PyOr(a.config_file, a.env), a.params)
      out ==
        IF Truthy(is_direct_api_flow) /\ Truthy(is_cicd_flow)
          THEN import_mixed_flows_error
        ELSE IF Truthy(is_direct_api_flow)
          THEN Then(_check_required_param(a, "path", "path", "Direct API", DirectSyntax),
                    _check_required_param(a, "input", "-i/--input", "Direct API", DirectSyntax))
        ELSE IF Truthy(is_cicd_flow)
          THEN Then(_check_required_param(a, "config_file", "--config-file", "CICD", CicdSyntax),
                    _check_required_param(a, "env", "--env", "CICD", CicdSyntax))
        ELSE import_no_flow_specified_error
  IN [out |-> out, args |-> a, ret |-> IF out = Returned THEN a ELSE None]

\* ---- exec_command ----
\* utils.process_nargs: the repeated-flag value turned into its canonical form.
process_nargs(v) == [t |-> "canon", n |-> v.n]

\* The executors either complete or fail with an import error.
import_single_item(res) == IF res = "ok" THEN Returned ELSE ImportError

import_with_config_file(res) == IF res = "ok" THEN Returned ELSE ImportError

\* Variant: the CI/CD branch is taken only when env is given as well.
dispatch_NeedsEnv(a, context, res, trace) ==
  IF Truthy(a.path) /\ Truthy(a.input)
    THEN LET a2 == [a EXCEPT !.input = process_nargs(a.input)]
             t2 == Append(trace, "process_nargs")
         IN IF context = "Item"
              THEN [out |-> import_single_item(res), args |-> a2,
                    trace |-> Append(t2, "import_single_item")]
              ELSE [out |-> Returned, args |-> a2, trace |-> t2]
  ELSE IF Truthy(a.config_file) /\ Truthy(a.env)
    THEN [out |-> import_with_config_file(res), args |-> a,
          trace |-> Append(trace, "import_with_config_file")]
  ELSE [out |-> Returned, args |-> a, trace |-> trace]

\* The body after the validation step (fab_fs_import.py lines 16-24).
dispatch(a, context, res, trace) ==
  IF Truthy(a.path) /\ Truthy(a.input)
    THEN LET a2 == [a EXCEPT !.input = process_nargs(a.input)]
             t2 == Append(trace, "process_nargs")
         IN IF context = "Item"
              THEN [out |-> import_single_item(res), args |-> a2,
                    trace |-> Append(t2, "import_single_item")]
              ELSE [out |-> Returned, args |-> a2, trace |-> t2]
  ELSE IF Truthy(a.config_file)
    THEN [out |-> import_with_config_file(res), args |-> a,
          trace |-> Append(trace, "import_with_config_file")]
  ELSE [out |-> Returned, args |-> a, trace |-> trace]

\* Variant: the validator's result is dropped and dispatch goes ahead.
exec_command_IgnoreFailure(a, context, res) ==
  IF a.validate_args # "unset"
    THEN LET v == validate_import_args(a)
         IN dispatch(v.args, context, res, <<"validate_args">>)
    ELSE dispatch(a, context, res, <<>>)

exec_command(a, context, res) ==
  IF a.validate_args # "unset"
    THEN LET v == validate_import_args(a)
         IN IF v.out # Returned
              THEN [out |-> v.out, args |-> v.args, trace |-> <<"validate_args">>]
              ELSE dispatch(v.args, context, res, <<"validate_args">>)
    ELSE dispatch(a, context, res, <<>>)

\* ---- the state machine ----
Init ==
  /\ args \in Bags
  /\ last = [op |-> "none", context |-> "none", before |-> args,
             out |-> NoOutcome, ret |-> None, trace |-> <<>>]
  /\ hist = <<>>
  /\ calls = 0
  /\ pc = "idle"

\* A direct call of validate_import_args(args), as the parser and the tests make.
ValidateCall ==
  /\ pc = "idle"
  /\ calls < MaxCalls
  /\ LET r == validate_import_args(args)
     IN /\ args' = r.args
        /\ last' = [op |-> "validate_import_args", context |-> "none", before |-> args,
                    out |-> r.out, ret |-> r.ret, trace |-> <<>>]
        /\ hist' = Append(hist, r.out)
  /\ calls' = calls + 1
  /\ pc' = "idle"

\* One call of exec_command(args, context); the command ends the run.
ExecCommand(context, res) ==
  /\ pc = "idle"
  /\ LET r == exec_command(args, context, res)
     IN /\ args' = r.args
        /\ last' = [op |-> "exec_command", context |-> context, before |-> args,
                    out |-> r.out, ret |-> None, trace |-> r.trace]
  /\ pc' = "done"
  /\ UNCHANGED <<hist, calls>>

Next ==
  \/ ValidateCall
  \/ \E context \in ContextTypes, res \in ExecutorResults : ExecCommand(context, res)

Spec == Init /\ [][Next]_vars

\* ---- vocabulary of the properties ----
\* A field is present when it is not None, not "" and not an empty sequence.
Present(v) == ~(v = None \/ v.n = 0)

DirectSignal(b) == Present(b.path) \/ Present(b.input) \/ Present(b.format)

CicdSignal(b) == Present(b.config_file) \/ Present(b.env) \/ Present(b.params)

Validated == last.op = "validate_import_args"

Executed == last.op = "exec_command"

Count(seq, e) == Cardinality({i \in 1..Len(seq) : seq[i] = e})

Executors == {"import_single_item", "import_with_config_file"}

ExecutorCalls(seq) == Cardinality({i \in 1..Len(seq) : seq[i] \in Executors})

DirectCase(b) ==
  /\ Present(b.path) /\ Present(b.input)
  /\ ~Present(b.config_file) /\ ~Present(b.env) /\ ~Present(b.params)

CicdCase(b) ==
  /\ Present(b.config_file) /\ Present(b.env)
  /\ ~Present(b.path) /\ ~Present(b.input) /\ ~Present(b.format)

\* C1: a bag with a signal field of each flow fails with the mixed-flows
\* error, never with a missing-parameter or no-flow error, and never succeeds.
C1_MixedFlows ==
  (Validated /\ DirectSignal(last.before) /\ CicdSignal(last.before))
    => last.out = import_mixed_flows_error

\* Only the optional fields of the two flows are given.
C1_Witness ==
  /\ Validated
  /\ Present(last.before.format) /\ Present(last.before.params)
  /\ ~Present(last.before.path) /\ ~Present(last.before.input)
  /\ ~Present(last.before.config_file) /\ ~Present(last.before.env)
  /\ last.out = import_mixed_flows_error

\* C2: the no-flow error is raised exactly for the bags in which each of the
\* six fields is None, an empty string or an empty sequence.
C2_NoFlow ==
  Validated =>
    ((last.out = import_no_flow_specified_error)
       <=> (~DirectSignal(last.before) /\ ~CicdSignal(last.before)))

\* An empty sequence, an empty string and a None, none of them a flow signal.
C2_Witness ==
  /\ Validated
  /\ last.before.path = [t |-> "list", n |-> 0]
  /\ last.before.env = [t |-> "str", n |-> 0]
  /\ last.before.input = None
  /\ ~DirectSignal(last.before) /\ ~CicdSignal(last.before)
  /\ last.out = import_no_flow_specified_error

\* C3: a Direct-only bag fails naming 'path' when path is absent, fails naming
\* '-i/--input' when path is present and input absent (flow 'Direct API' and
\* the Direct syntax in both), and succeeds when both are present.
C3_DirectFlow ==
  (Validated /\ DirectSignal(last.before) /\ ~CicdSignal(last.before)) =>
    /\ ~Present(last.before.path) =>
         last.out = import_required_param_missing("path", "Direct API",
                      "fab import <path> -i <input_path> [--format <format>]")
    /\ (Present(last.before.path) /\ ~Present(last.before.input)) =>
         last.out = import_required_param_missing("-i/--input", "Direct API",
                      "fab import <path> -i <input_path> [--format <format>]")
    /\ (Present(last.before.path) /\ Present(last.before.input)) =>
         last.out = Returned

\* Only format is given: path and input are both missing, 'path' is named.
C3_Witness ==
  /\ Validated
  /\ Present(last.before.format)
  /\ ~Present(last.before.path) /\ ~Present(last.before.input)
  /\ ~CicdSignal(last.before)
  /\ last.out.kind = "import_required_param_missing"
  /\ last.out.param = "path"

\* C4: a CICD-only bag fails naming '--config-file' when config_file is
\* absent, fails naming '--env' when config_file is present and env absent
\* (flow 'CICD' and the Config syntax in both), and succeeds when both are
\* present.
C4_CicdFlow ==
  (Validated /\ CicdSignal(last.before) /\ ~DirectSignal(last.before)) =>
    /\ ~Present(last.before.config_file) =>
         last.out = import_required_param_missing("--config-file", "CICD",
                      "fab import --config-file <config_path> --env <env_name> [-P <params>]")
    /\ (Present(last.before.config_file) /\ ~Present(last.before.env)) =>
         last.out = import_required_param_missing("--env", "CICD",
                      "fab import --config-file <config_path> --env <env_name> [-P <params>]")
    /\ (Present(last.before.config_file) /\ Present(last.before.env)) =>
         last.out = Returned

\* config_file is given, env is not: '--env' is named.
C4_Witness ==
  /\ Validated
  /\ Present(last.before.config_file)
  /\ ~Present(last.before.env)
  /\ ~DirectSignal(last.before)
  /\ last.out.kind = "import_required_param_missing"
  /\ last.out.param = "--env"
  /\ last.out.flow = "CICD"

\* C5: validate_import_args leaves the bag as it was, returns that very bag
\* on success, and repeated validation of the bag gives the same outcome.
C5_BagUnchanged ==
  Validated =>
    /\ args = last.before
    /\ (last.out = Returned => last.ret = last.before)
    /\ \A i \in 1..Len(hist) : hist[i] = hist[1]

\* A second validation of a bag that passes.
C5_Witness ==
  /\ Validated
  /\ Len(hist) >= 2
  /\ last.out = Returned
  /\ last.ret = args

\* C6: exec_command on a Direct-shaped bag with a context that is not an Item
\* ends in an error: the Direct executor is not invoked and the call does not
\* return normally.
C6_DispatchRejected ==
  (Executed /\ Present(last.before.path) /\ Present(last.before.input)
     /\ last.context # "Item") =>
    /\ Count(last.trace, "import_single_item") = 0
    /\ last.out # Returned

\* C7: for a bag with signal fields of both flows or of neither, exec_command
\* invokes no executor and ends in an error, with or without validate_args.
C7_NeverSilentlyResolved ==
  (Executed /\ (DirectSignal(last.before) <=> CicdSignal(last.before))) =>
    /\ ExecutorCalls(last.trace) = 0
    /\ last.out # Returned

\* C8: with validate_args attached, a validation failure is raised before any
\* dispatch step (no executor, input not normalized, nothing after the
\* error); an executor runs only after validation succeeded, at most once.
C8_ValidateBeforeDispatch ==
  (Executed /\ last.before.validate_args # "unset") =>
    /\ Len(last.trace) >= 1 /\ last.trace[1] = "validate_args"
    /\ validate_import_args(last.before).out # Returned =>
         /\ last.out = validate_import_args(last.before).out
         /\ last.trace = <<"validate_args">>
         /\ args = last.before
    /\ ExecutorCalls(last.trace) > 0 =>
         validate_import_args(last.before).out = Returned
    /\ ExecutorCalls(last.trace) <= 1

\* A Direct-shaped bag that also carries a CICD field is refused.
C8_Witness ==
  /\ Executed
  /\ last.before.validate_args = "validate_import_args"
  /\ Present(last.before.path) /\ Present(last.before.input)
  /\ Present(last.before.params)
  /\ last.out = import_mixed_flows_error
  /\ last.trace = <<"validate_args">>
  /\ args.input.t = "list"

\* C9 as stated: for every bag with config_file present and path or input
\* absent, exec_command invokes the Config executor exactly once and never
\* the Direct executor, whatever the context.
C9_Original ==
  (Executed /\ Present(last.before.config_file)
     /\ ~(Present(last.before.path) /\ Present(last.before.input))) =>
    /\ Count(last.trace, "import_with_config_file") = 1
    /\ Count(last.trace, "import_single_item") = 0

\* C9 (amended): the same, for the bags that the attached validator, if there
\* is one, accepts.
C9_ConfigDispatch ==
  (Executed /\ Present(last.before.config_file)
     /\ ~(Present(last.before.path) /\ Present(last.before.input))
     /\ (last.before.validate_args # "unset"
           => validate_import_args(last.before).out = Returned)) =>
    /\ Count(last.trace, "import_with_config_file") = 1
    /\ Count(last.trace, "import_single_item") = 0

\* The Config executor runs for a context that is not an Item.
C9_Witness ==
  /\ Executed
  /\ last.context = "Folder"
  /\ last.before.validate_args = "validate_import_args"
  /\ Present(last.before.config_file)
  /\ Present(last.before.params)
  /\ last.trace = <<"validate_args", "import_with_config_file">>

\* C10: a bag that passes validation is of exactly one of the two complete
\* flow shapes, and the dispatcher takes the branch of that flow.
C10_ValidatorDispatcherAgree ==
  /\ (Validated /\ last.out = Returned) =>
       (DirectCase(last.before) # CicdCase(last.before))
  /\ (Executed /\ last.before.validate_args # "unset"
        /\ validate_import_args(last.before).out = Returned) =>
       /\ DirectCase(last.before) # CicdCase(last.before)
       /\ DirectCase(last.before) =>
            /\ Count(last.trace, "process_nargs") = 1
            /\ Count(last.trace, "import_with_config_file") = 0
            /\ (last.context = "Item" => Count(last.trace, "import_single_item") = 1)
       /\ CicdCase(last.before) =>
            /\ Count(last.trace, "import_with_config_file") = 1
            /\ Count(last.trace, "process_nargs") = 0
            /\ Count(last.trace, "import_single_item") = 0

\* A validated Direct bag reaches the Direct executor.
C10_Witness ==
  /\ Executed
  /\ last.before.validate_args = "validate_import_args"
  /\ DirectCase(last.before)
  /\ last.context = "Item"
  /\ last.trace = <<"validate_args", "process_nargs", "import_single_item">>
  /\ args.input.t = "canon"

====
